---- MODULE Spec2Model ----
(***************************************************************************)
(* Passkey (WebAuthn) registration and authentication of tacy-stack:       *)
(* src/lib/passkey.ts (challenge stores, the two ceremonies), the parts of *)
(* src/lib/auth.ts the ceremonies hand over to (users, sessions) and the   *)
(* routes of src/index.ts that call them.                                  *)
(*                                                                         *)
(* Time is counted in units of five minutes.  A request handler is an async function:    *)
(* it runs without interruption from one await to the next, so every       *)
(* action below is the code between two awaits of one handler, and the     *)
(* handlers of different requests interleave at those awaits.              *)
(***************************************************************************)
EXTENDS Integers, Sequences, FiniteSets, TLC

\* ---------------------------------------------------------------- bounds
MaxTime == 2          \* the clock stops here
MaxChallenges == 2    \* challenges issued in one behaviour
MaxOps == 2           \* completion requests started in one behaviour
MaxCounter == 2       \* largest signature counter an authenticator reports
MaxSessions == 2      \* sessions created in one behaviour of the application
MaxCount == 2         \* the click counter stays within -MaxCount..MaxCount

\* ------------------------------------------------------ program constants
CHALLENGE_TTL == 1    \* passkey.ts:46, 5 * 60 * 1000 ms: one unit of time
SESSION_DURATION == 2016  \* auth.ts:5, 7 * 24 * 60 * 60 s, in units of time
TEMP_USER_ID == 0     \* index.ts:190 and passkey.ts:133, the placeholder

\* ------------------------------------------------------------ input sets
Requests == {1, 2}                \* requests that can be in flight together
Usernames == {"alice", "bob"}
CredIds == {"k1", "k2"}           \* credential ids authenticators present
\* "valid": the library's checks of signature, origin, RP ID and signed
\* challenge pass for this response and the expectedChallenge it comes with;
\* "forged": they do not.
Proofs == {"valid", "forged"}
Responses == [id : CredIds, counter : 0..MaxCounter, proof : Proofs]

NULL == -1                        \* SQL NULL in an integer column
NoName == ""                      \* SQL NULL in the column name of passkeys

VARIABLES
    now,                      \* Date.now()
    registrationChallenges,   \* passkey.ts:42, challenge -> [user_id, expires_at]
    authenticationChallenges, \* passkey.ts:43, challenge -> [expires_at]
    users,                    \* table users: row id -> username
    passkeys,                 \* table passkeys: id -> row
    sessions,                 \* table sessions: id -> row
    passkeyIds,               \* passkey ids drawn so far (crypto.randomUUID)
    sessionIds,               \* session ids drawn so far (crypto.randomUUID)
    req,                      \* the requests in flight: where each stands
    last,                     \* the answer the step just taken gave, if any
    ops,                      \* completion requests started so far
    ledger,                   \* history: for every challenge issued, its kind,
                              \* the name it was asked for, when it was
                              \* issued, the completions it let succeed
    counters,                 \* table counters: user_id -> count
    net                       \* history: for every user, the increments less
                              \* the decrements since the last reset

vars == <<now, registrationChallenges, authenticationChallenges, users,
          passkeys, sessions, passkeyIds, sessionIds, req, last, ops, ledger,
          counters, net>>

\* The click counter, which the passkey ceremonies leave alone
clicks == <<counters, net>>

\* ------------------------------------------------------------ error texts
ErrInvalidChallenge == "Invalid or expired challenge"
ErrChallengeExpired == "Challenge expired"
ErrUserMismatch == "User ID mismatch"
ErrRegistrationFailed == "Registration verification failed"
ErrPasskeyNotFound == "Passkey not found"
ErrAuthenticationFailed == "Authentication verification failed"
ErrLibrary == "verification threw"
ErrUnique == "UNIQUE constraint failed"
ErrUsernameTaken == "Username already taken"
ErrUserNotFound == "User not found"
ErrNotAuthenticated == "Not authenticated"
ErrInvalidSession == "Invalid session"

ChallengeErrors == {ErrInvalidChallenge, ErrChallengeExpired}

\* ------------------------------------------------------------- requests
NoResponse == [id |-> "", counter |-> 0, proof |-> ""]
NoPasskey == [id |-> 0, user_id |-> 0, counter |-> 0]

\* One request: where its handler stands (pc), what it was called with, the
\* passkey row it read, and the response as the library read it.  The
\* handler passes the response to the library unread (but for its id, on
\* authentication), so its content is drawn where the library answers.
Idle ==
    [pc |-> "idle", op |-> "none", route |-> FALSE, username |-> "",
     userId |-> 0, credId |-> "", challenge |-> 0, passkey |-> NoPasskey,
     resp |-> NoResponse, outcome |-> "", exclude |-> {},
     session |-> 0, count |-> 0]

\* A new request takes the first slot that holds no request in flight.
Free(r) ==
    /\ req[r].pc = "idle"
    /\ \A q \in Requests : q < r => req[q].pc # "idle"

\* The handler of request r, which stands at rec, answers with result
\* ("ok" or the message of the error thrown) and is gone.
Finish(r, rec, result) ==
    /\ req' = [req EXCEPT ![r] = Idle]
    /\ last' = [Idle EXCEPT !.pc = "done", !.op = rec.op, !.route = rec.route,
                            !.username = rec.username,
                            !.userId = rec.userId, !.credId = rec.credId,
                            !.challenge = rec.challenge, !.resp = rec.resp,
                            !.outcome = result]

\* The handler of request r goes on to rec and waits there.
Await(r, rec) ==
    /\ req' = [req EXCEPT ![r] = rec]
    /\ last' = Idle

\* ------------------------------------------------------------- helpers
\* (a check that grants one more TTL of grace)
ExpiredWithGrace(data) == data.expires_at + CHALLENGE_TTL < now

\* passkey.ts:52, 57, 127, 235
Expired(data) == data.expires_at < now

\* crypto.randomUUID(): a value never drawn before.  Ids are compared only
\* within one table, so each table counts its own.
NewPasskeyId == passkeyIds + 1
NewSessionId == sessionIds + 1

\* db.select().from(passkeys).where(eq(passkeys.credential_id, id)).get()
PasskeyByCredentialId(id) ==
    {p \in DOMAIN passkeys : passkeys[p].credential_id = id}

Succeeded == {c \in 1..Len(ledger) : ledger[c].ok > 0}

\* -------------------------------------------------------------- Init
\* The database file outlives the process (db.ts:6-10), the challenge
\* stores are in memory (passkey.ts:42-43): the server starts with empty
\* stores on the database an earlier run left, here the one left by alice
\* registering with credential k1 (an authenticator that counts from 0)
\* and logging out.
InitialUsers == <<"alice">>
InitialPasskeys ==
    1 :> [user_id |-> 1, credential_id |-> "k1", counter |-> 0,
          last_used_at |-> NULL, name |-> NoName]

Init ==
    /\ now = 0
    /\ registrationChallenges = << >>
    /\ authenticationChallenges = << >>
    /\ users = InitialUsers
    /\ passkeys = InitialPasskeys
    /\ passkeyIds = Cardinality(DOMAIN InitialPasskeys)
    /\ sessions = << >>
    /\ sessionIds = 0
    /\ req = [r \in Requests |-> Idle]
    /\ last = Idle
    /\ ops = 0
    /\ ledger = << >>
    /\ counters = << >>
    /\ net = << >>

\* -------------------------------------------------------------- clock
Tick ==
    /\ now < MaxTime
    /\ now' = now + 1
    /\ last' = Idle
    /\ UNCHANGED <<ops, registrationChallenges, authenticationChallenges, users,
                   passkeys, sessions, passkeyIds, sessionIds, req, ledger>>
    /\ UNCHANGED clicks

\* (a sweep that deletes nothing)
UnexpiredOrNot(store) == store

\* (a sweep that deletes an entry at the instant it expires)
UnexpiredStrictly(store) ==
    [c \in {k \in DOMAIN store : store[k].expires_at > now} |-> store[c]]

\* passkey.ts:49-61, the setInterval callback
Unexpired(store) ==
    [c \in {k \in DOMAIN store : ~Expired(store[k])} |-> store[c]]

Sweep ==
    /\ registrationChallenges' = Unexpired(registrationChallenges)
    /\ authenticationChallenges' = Unexpired(authenticationChallenges)
    /\ last' = Idle
    /\ UNCHANGED <<ops, now, users, passkeys, sessions, passkeyIds, sessionIds, req,
                   ledger>>
    /\ UNCHANGED clicks

\* ------------------------------------------------------ issuing challenges
\* generateRegistrationOptions / generateAuthenticationOptions draw a random
\* challenge: a value no earlier call returned.
NewChallenge == Len(ledger) + 1

\* getPasskeysForUser, passkey.ts:292-312: the rows of one user
getPasskeysForUser(userId) ==
    {p \in DOMAIN passkeys : passkeys[p].user_id = userId}

\* excludeCredentials of the options, passkey.ts:81 and 89-94
ExcludeCredentials(user) ==
    {passkeys[p].credential_id : p \in getPasskeysForUser(user.id)}

\* passkey.ts:77-109, called with user = [id, username].  The code before
\* its await only reads (the exclude list); the store is written after it.
\* The options returned are the answer of the step.
CreateRegistrationOptions(user) ==
    /\ Len(ledger) < MaxChallenges
    /\ LET data == [user_id |-> user.id, expires_at |-> now + CHALLENGE_TTL] IN
       /\ registrationChallenges' = registrationChallenges @@ (NewChallenge :> data)
       /\ ledger' = Append(ledger, [kind |-> "registration", username |-> user.username,
                                    issued_at |-> now, ok |-> 0])
    /\ UNCHANGED <<ops, now, authenticationChallenges, users, passkeys, sessions,
                   passkeyIds, sessionIds, req>>
    /\ last' = [Idle EXCEPT !.pc = "options", !.op = "register",
                            !.username = user.username, !.userId = user.id,
                            !.challenge = NewChallenge,
                            !.exclude = ExcludeCredentials(user)]
    /\ UNCHANGED clicks

\* GET /api/auth/passkey/register/options?username=..., index.ts:175-211:
\* the options are made for a temporary user of that name, with id 0
RegisterOptions(username) ==
    CreateRegistrationOptions([id |-> TEMP_USER_ID, username |-> username])

\* (one store for both ceremonies)
CreateAuthenticationOptionsInSharedStore ==
    /\ Len(ledger) < MaxChallenges
    /\ LET data == [user_id |-> TEMP_USER_ID, expires_at |-> now + CHALLENGE_TTL] IN
       /\ registrationChallenges' = registrationChallenges @@ (NewChallenge :> data)
       /\ ledger' = Append(ledger, [kind |-> "authentication", username |-> "",
                                    issued_at |-> now, ok |-> 0])
    /\ last' = Idle
    /\ UNCHANGED <<ops, now, authenticationChallenges, users, passkeys, sessions,
                   passkeyIds, sessionIds, req>>
    /\ UNCHANGED clicks

\* passkey.ts:203-218, called by the route index.ts:215-232
CreateAuthenticationOptions ==
    /\ Len(ledger) < MaxChallenges
    /\ LET data == [expires_at |-> now + CHALLENGE_TTL] IN
       /\ authenticationChallenges' = authenticationChallenges @@ (NewChallenge :> data)
       /\ ledger' = Append(ledger, [kind |-> "authentication", username |-> "",
                                    issued_at |-> now, ok |-> 0])
    /\ UNCHANGED <<ops, now, registrationChallenges, users, passkeys, sessions,
                   passkeyIds, sessionIds, req>>
    /\ last' = Idle
    /\ UNCHANGED clicks

\* (a delete that removes nothing)
WithoutNothing(store, c) == store

\* (a delete that removes only what has expired)
WithoutIfExpired(store, c) ==
    [k \in {j \in DOMAIN store : j # c \/ ~Expired(store[j])} |-> store[k]]

\* Map.delete, passkey.ts:53, 58, 128, 151, 236, 272
Without(store, c) == [k \in DOMAIN store \ {c} |-> store[k]]

Redeemed(c) == [ledger EXCEPT ![c].ok = @ + 1]

\* ------------------------------------------- @simplewebauthn/server
\* verifyRegistrationResponse as called at passkey.ts:138-144: it throws or
\* reports verified: false unless the attestation verifies; registrationInfo
\* carries the credential of the attestation.
verifyRegistrationResponse(response, expectedChallenge) ==
    [verified |-> response.proof = "valid",
     credential |-> [id |-> response.id, counter |-> response.counter]]

\* verifyAuthenticationResponse as called at passkey.ts:254-265: it throws
\* when the reported counter is not above the counter it was given, unless
\* both are 0; otherwise verified tells whether the assertion verifies, and
\* newCounter is the reported counter.
verifyAuthenticationResponse(response, expectedChallenge, credential) ==
    IF /\ (response.counter > 0 \/ credential.counter > 0)
       /\ response.counter <= credential.counter
    THEN [threw |-> TRUE, verified |-> FALSE, newCounter |-> response.counter]
    ELSE [threw |-> FALSE, verified |-> response.proof = "valid",
          newCounter |-> response.counter]

\* ------------------------------------------------------ authentication
\* What verifyAndAuthenticatePasskey hands to the library of the passkey
\* row it read before its await: passkey.ts:260-264
\* (the stored counter left out)
CredentialGivenWithoutCounter(rec) ==
    [id |-> rec.credId, counter |-> 0]

CredentialGiven(rec) ==
    [id |-> rec.credId, counter |-> rec.passkey.counter]

\* POST /api/auth/passkey/authenticate/verify, index.ts:235-247, into
\* verifyAndAuthenticatePasskey up to its await, passkey.ts:227-265
AuthenticateBegin(r, credId, c) ==
    /\ Free(r)
    /\ ops < MaxOps
    /\ ops' = ops + 1
    /\ LET call == [Idle EXCEPT !.op = "authenticate", !.route = TRUE,
                                !.credId = credId, !.challenge = c]
           found == PasskeyByCredentialId(credId)
       IN
       IF c \notin DOMAIN authenticationChallenges
       THEN /\ Finish(r, call, ErrInvalidChallenge)
            /\ UNCHANGED authenticationChallenges
       ELSE IF Expired(authenticationChallenges[c])
       THEN /\ authenticationChallenges' = Without(authenticationChallenges, c)
            /\ Finish(r, call, ErrChallengeExpired)
       ELSE IF found = {}
       THEN /\ Finish(r, call, ErrPasskeyNotFound)
            /\ UNCHANGED authenticationChallenges
       ELSE /\ UNCHANGED authenticationChallenges
            /\ LET p == CHOOSE p \in found : TRUE IN
               Await(r, [call EXCEPT !.pc = "verifyAuthentication",
                                     !.passkey = [id |-> p,
                                                  user_id |-> passkeys[p].user_id,
                                                  counter |-> passkeys[p].counter]])
    /\ UNCHANGED <<now, registrationChallenges, users, passkeys, sessions,
                   passkeyIds, sessionIds, ledger>>
    /\ UNCHANGED clicks

\* (an update without its where clause)
UpdateCounterEverywhere(table, id, newCounter) ==
    [p \in DOMAIN table |-> [table[p] EXCEPT !.counter = newCounter,
                                             !.last_used_at = now]]

\* (an update that counts the use itself)
UpdateCounterIncrementing(table, id, newCounter) ==
    [p \in DOMAIN table |->
        IF p = id THEN [table[p] EXCEPT !.counter = newCounter + 1,
                                        !.last_used_at = now]
        ELSE table[p]]

\* db.update(passkeys).set({counter, last_used_at}).where(eq(passkeys.id, id)),
\* passkey.ts:275-281
UpdateCounter(table, id, newCounter) ==
    [p \in DOMAIN table |->
        IF p = id THEN [table[p] EXCEPT !.counter = newCounter,
                                        !.last_used_at = now]
        ELSE table[p]]

\* (the counter written before the result of the verification is looked at)
AuthenticateVerifiedCommittingFirst(r, response) ==
    /\ req[r].pc = "verifyAuthentication"
    /\ response.id = req[r].credId
    /\ LET rec == [req[r] EXCEPT !.resp = response]
           verification == verifyAuthenticationResponse(
               response, rec.challenge, CredentialGiven(rec))
       IN
       IF verification.threw
       THEN /\ Finish(r, rec, ErrLibrary)
            /\ UNCHANGED <<authenticationChallenges, passkeys, ledger>>
       ELSE /\ passkeys' = UpdateCounter(passkeys, rec.passkey.id,
                                         verification.newCounter)
            /\ IF ~verification.verified
               THEN /\ Finish(r, rec, ErrAuthenticationFailed)
                    /\ UNCHANGED <<authenticationChallenges, ledger>>
               ELSE /\ authenticationChallenges' =
                           Without(authenticationChallenges, rec.challenge)
                    /\ ledger' = Redeemed(rec.challenge)
                    /\ Await(r, [rec EXCEPT !.pc = "authenticated",
                                            !.userId = rec.passkey.user_id])
    /\ UNCHANGED <<ops, now, registrationChallenges, users, sessions, passkeyIds,
                   sessionIds>>
    /\ UNCHANGED clicks

\* verifyAndAuthenticatePasskey after its await, passkey.ts:267-287
AuthenticateVerified(r, response) ==
    /\ req[r].pc = "verifyAuthentication"
    /\ response.id = req[r].credId
    /\ LET rec == [req[r] EXCEPT !.resp = response]
           verification == verifyAuthenticationResponse(
               response, rec.challenge, CredentialGiven(rec))
       IN
       IF verification.threw
       THEN /\ Finish(r, rec, ErrLibrary)
            /\ UNCHANGED <<authenticationChallenges, passkeys, ledger>>
       ELSE IF ~verification.verified
       THEN /\ Finish(r, rec, ErrAuthenticationFailed)
            /\ UNCHANGED <<authenticationChallenges, passkeys, ledger>>
       ELSE /\ authenticationChallenges' =
                   Without(authenticationChallenges, rec.challenge)
            /\ passkeys' = UpdateCounter(passkeys, rec.passkey.id,
                                         verification.newCounter)
            /\ ledger' = Redeemed(rec.challenge)
            /\ Await(r, [rec EXCEPT !.pc = "authenticated",
                                    !.userId = rec.passkey.user_id])
    /\ UNCHANGED <<ops, now, registrationChallenges, users, sessions, passkeyIds,
                   sessionIds>>
    /\ UNCHANGED clicks

\* (a session of the placeholder user)
WithSessionOfNobody(table, id, userId) ==
    table @@ (id :> [user_id |-> TEMP_USER_ID,
                     expires_at |-> now + SESSION_DURATION])

\* createSession, auth.ts:24-43
WithSession(table, id, userId) ==
    table @@ (id :> [user_id |-> userId, expires_at |-> now + SESSION_DURATION])

\* getUserBySession of a session just created, auth.ts:68-87: the user row
UserExists(userId) == userId \in 1..Len(users)

\* The route after verifyAndAuthenticatePasskey returned, index.ts:249-266:
\* createSession, getUserBySession, and createSession again for the cookie
AuthenticateRespond(r) ==
    /\ req[r].pc = "authenticated"
    /\ LET rec == req[r]
           first == WithSession(sessions, NewSessionId, rec.userId)
       IN
       IF ~UserExists(rec.userId)
       THEN /\ sessions' = first
            /\ sessionIds' = sessionIds + 1
            /\ Finish(r, rec, ErrUserNotFound)
       ELSE /\ sessions' = WithSession(first, NewSessionId + 1, rec.userId)
            /\ sessionIds' = sessionIds + 2
            /\ Finish(r, rec, "ok")
    /\ UNCHANGED <<ops, now, registrationChallenges, authenticationChallenges, users,
                   passkeys, passkeyIds, ledger>>
    /\ UNCHANGED clicks

\* -------------------------------------------------------- registration
\* (a table and a route that let any name in)
UsernameNeverTaken(username) == FALSE

\* getUserByUsername(username) finds a row, auth.ts:89-105; username is
\* UNIQUE in the schema, so an insert of such a name fails
UsernameTaken(username) == \E u \in 1..Len(users) : users[u] = username

\* POST /api/auth/register, index.ts:101-123, into createUser up to its
\* await, auth.ts:111-118
RegisterBegin(r, username, c) ==
    /\ Free(r)
    /\ ops < MaxOps
    /\ ops' = ops + 1
    /\ LET call == [Idle EXCEPT !.op = "register", !.route = TRUE,
                                !.username = username, !.challenge = c]
       IN
       IF UsernameTaken(username)
       THEN Finish(r, call, ErrUsernameTaken)
       ELSE Await(r, [call EXCEPT !.pc = "createUser"])
    /\ UNCHANGED <<now, registrationChallenges, authenticationChallenges, users,
                   passkeys, sessions, passkeyIds, sessionIds, ledger>>
    /\ UNCHANGED clicks

\* createUser after its await, auth.ts:119-150: the insert (username is
\* UNIQUE in the schema) and the select of the new row
CreateUser(r) ==
    /\ req[r].pc = "createUser"
    /\ IF UsernameTaken(req[r].username)
       THEN /\ Finish(r, req[r], ErrUnique)
            /\ UNCHANGED users
       ELSE /\ users' = Append(users, req[r].username)
            /\ Await(r, [req[r] EXCEPT !.pc = "userCreated",
                                       !.userId = Len(users) + 1])
    /\ UNCHANGED <<ops, now, registrationChallenges, authenticationChallenges,
                   passkeys, sessions, passkeyIds, sessionIds, ledger>>
    /\ UNCHANGED clicks

\* (a check that lets every subject pass)
SubjectMismatchIgnored(challengeData, userId) == FALSE

\* passkey.ts:133
SubjectMismatch(challengeData, userId) ==
    /\ challengeData.user_id # TEMP_USER_ID
    /\ challengeData.user_id # userId

\* verifyAndCreatePasskey up to its await, passkey.ts:119-144: where the
\* call `rec` (userId, challenge) ends up, and the store afterwards
CreatePasskeyEnter(r, rec) ==
    LET c == rec.challenge IN
    IF c \notin DOMAIN registrationChallenges
    THEN /\ Finish(r, rec, ErrInvalidChallenge)
         /\ UNCHANGED registrationChallenges
    ELSE IF Expired(registrationChallenges[c])
    THEN /\ registrationChallenges' = Without(registrationChallenges, c)
         /\ Finish(r, rec, ErrChallengeExpired)
    ELSE IF SubjectMismatch(registrationChallenges[c], rec.userId)
    THEN /\ Finish(r, rec, ErrUserMismatch)
         /\ UNCHANGED registrationChallenges
    ELSE /\ Await(r, [rec EXCEPT !.pc = "verifyRegistration"])
         /\ UNCHANGED registrationChallenges

\* The route calls verifyAndCreatePasskey(user.id, credential, challenge),
\* index.ts:126
RegisterVerify(r) ==
    /\ req[r].pc = "userCreated"
    /\ CreatePasskeyEnter(r, req[r])
    /\ UNCHANGED <<ops, now, authenticationChallenges, users, passkeys, sessions,
                   passkeyIds, sessionIds, ledger>>
    /\ UNCHANGED clicks

\* verifyAndCreatePasskey called for an existing user (a passkey added to
\* an account), passkey.ts:114-144
CreatePasskeyBegin(r, userId, c) ==
    /\ Free(r)
    /\ ops < MaxOps
    /\ ops' = ops + 1
    /\ CreatePasskeyEnter(r, [Idle EXCEPT !.op = "register", !.userId = userId,
                                          !.challenge = c])
    /\ UNCHANGED <<now, authenticationChallenges, users, passkeys, sessions,
                   passkeyIds, sessionIds, ledger>>
    /\ UNCHANGED clicks

\* (a table without the constraint)
CredentialIdNeverTaken(id) == FALSE

\* credential_id is UNIQUE in the schema: an insert of a credential id that
\* some row has fails
CredentialIdTaken(id) == PasskeyByCredentialId(id) # {}

\* (a row bound to the placeholder)
WithPasskeyOfNobody(table, id, userId, credential) ==
    table @@ (id :> [user_id |-> TEMP_USER_ID, credential_id |-> credential.id,
                     counter |-> credential.counter, last_used_at |-> NULL,
                     name |-> NoName])

\* db.insert(passkeys).values({...}), passkey.ts:163-173
WithPasskey(table, id, userId, credential) ==
    table @@ (id :> [user_id |-> userId, credential_id |-> credential.id,
                     counter |-> credential.counter, last_used_at |-> NULL,
                     name |-> NoName])

\* verifyAndCreatePasskey after its await, passkey.ts:146-198
CreatePasskeyVerified(r, response) ==
    /\ req[r].pc = "verifyRegistration"
    /\ LET rec == [req[r] EXCEPT !.resp = response]
           verification == verifyRegistrationResponse(response, rec.challenge)
           credential == verification.credential
       IN
       IF ~verification.verified
       THEN /\ Finish(r, rec, ErrRegistrationFailed)
            /\ UNCHANGED <<registrationChallenges, passkeys, passkeyIds, ledger>>
       ELSE /\ registrationChallenges' =
                   Without(registrationChallenges, rec.challenge)
            /\ IF CredentialIdTaken(credential.id)
               THEN /\ Finish(r, rec, ErrUnique)
                    /\ UNCHANGED <<passkeys, passkeyIds, ledger>>
               ELSE /\ passkeys' = WithPasskey(passkeys, NewPasskeyId,
                                               rec.userId, credential)
                    /\ passkeyIds' = passkeyIds + 1
                    /\ ledger' = Redeemed(rec.challenge)
                    /\ IF rec.route
                       THEN Await(r, [rec EXCEPT !.pc = "registered"])
                       ELSE Finish(r, rec, "ok")
    /\ UNCHANGED <<ops, now, authenticationChallenges, users, sessions, sessionIds>>
    /\ UNCHANGED clicks

\* The route after verifyAndCreatePasskey returned, index.ts:128-136
RegisterRespond(r) ==
    /\ req[r].pc = "registered"
    /\ sessions' = WithSession(sessions, NewSessionId, req[r].userId)
    /\ sessionIds' = sessionIds + 1
    /\ Finish(r, req[r], "ok")
    /\ UNCHANGED <<ops, now, registrationChallenges, authenticationChallenges, users,
                   passkeys, passkeyIds, ledger>>
    /\ UNCHANGED clicks

\* ------------------------------------------------- what the client gets
\* The status of the answer of the routes /api/auth/register and
\* /api/auth/passkey/authenticate/verify: 200 by default, 400 and 404 where
\* the route returns them, 500 from the catch (index.ts:116-119, 131, 137-143,
\* 253-256, 261, 267-273)
Status(outcome) ==
    IF outcome = "ok" THEN 200
    ELSE IF outcome = ErrUsernameTaken THEN 400
    ELSE IF outcome = ErrUserNotFound THEN 404
    ELSE 500

\* The body: the user, or {error: error.message}
Body(outcome) ==
    IF outcome = "ok" THEN [user |-> TRUE, error |-> ""]
    ELSE [user |-> FALSE, error |-> outcome]

ClientResponse(outcome) == [status |-> Status(outcome), body |-> Body(outcome)]

\* ---------------------------------------------------------------- Next
Issued == 1..Len(ledger)

\* What a client can present as a challenge: a value some options call
\* returned, or one that none did (0).
NeverIssued == {0}
Presentable == Issued \cup NeverIssued

Next ==
    \/ Tick
    \/ Sweep
    \/ \E username \in Usernames : RegisterOptions(username)
    \/ \E u \in 1..Len(users) :
          CreateRegistrationOptions([id |-> u, username |-> users[u]])
    \/ CreateAuthenticationOptions
    \/ \E r \in Requests, k \in CredIds, c \in Presentable :
          AuthenticateBegin(r, k, c)
    \/ \E r \in Requests, response \in Responses : AuthenticateVerified(r, response)
    \/ \E r \in Requests : AuthenticateRespond(r)
    \/ \E r \in Requests, username \in Usernames, c \in Presentable :
          RegisterBegin(r, username, c)
    \/ \E r \in Requests : CreateUser(r)
    \/ \E r \in Requests : RegisterVerify(r)
    \/ \E r \in Requests, c \in Presentable :
          \E u \in 1..Len(users) : CreatePasskeyBegin(r, u, c)
    \/ \E r \in Requests, response \in Responses : CreatePasskeyVerified(r, response)
    \/ \E r \in Requests : RegisterRespond(r)

Spec == Init /\ [][Next]_vars

\* The timer of the sweep fires again and again (setInterval, passkey.ts:49)
\* and time goes on, up to the end of the time modelled.
Fairness == WF_vars(Sweep) /\ WF_vars(Tick)

FairSpec == Spec /\ Fairness

\* =================================================================
\* Sessions and the click counter
\* =================================================================
\* Seven days are many units of time: the application is followed at the
\* instants around the end of a session that was created at 0 or at 1.
Instants ==
    {0, 1, SESSION_DURATION - 1, SESSION_DURATION, SESSION_DURATION + 1}

\* The session cookie of a request: none, or a session id
Cookies == {NULL} \cup 1..MaxSessions

\* The database an earlier run left: alice and bob, a passkey each
RegisteredUsers == <<"alice", "bob">>
RegisteredPasskeys ==
    (1 :> [user_id |-> 1, credential_id |-> "k1", counter |-> 0,
           last_used_at |-> NULL, name |-> NoName])
    @@ (2 :> [user_id |-> 2, credential_id |-> "k2", counter |-> 0,
              last_used_at |-> NULL, name |-> NoName])

AppInit ==
    /\ now = 0
    /\ registrationChallenges = << >>
    /\ authenticationChallenges = << >>
    /\ users = RegisteredUsers
    /\ passkeys = RegisteredPasskeys
    /\ passkeyIds = Cardinality(DOMAIN RegisteredPasskeys)
    /\ sessions = << >>
    /\ sessionIds = 0
    /\ req = [r \in Requests |-> Idle]
    /\ last = Idle
    /\ ops = 0
    /\ ledger = << >>
    /\ counters = << >>
    /\ net = [u \in 1..Len(RegisteredUsers) |-> 0]

\* What the ceremonies own, which the application's other routes leave alone
ceremonies ==
    <<registrationChallenges, authenticationChallenges, users, passkeyIds,
      req, ops, ledger>>

\* The answer of a step: of operation op, for the cookie or session id given
Answer(op, session, userId, count, result) ==
    [Idle EXCEPT !.pc = "done", !.op = op, !.session = session,
                 !.userId = userId, !.count = count, !.outcome = result]

\* Time goes on to a later instant
Elapse(t) ==
    /\ t > now
    /\ now' = t
    /\ last' = Idle
    /\ UNCHANGED <<sessions, sessionIds, passkeys, counters, net>>
    /\ UNCHANGED ceremonies

\* createSession(userId) at the end of a registration or an authentication,
\* auth.ts:24-43
CreateSession(userId) ==
    /\ sessionIds < MaxSessions
    /\ sessions' = WithSession(sessions, NewSessionId, userId)
    /\ sessionIds' = sessionIds + 1
    /\ last' = Answer("createSession", NewSessionId, userId, 0, "ok")
    /\ UNCHANGED <<now, passkeys, counters, net>>
    /\ UNCHANGED ceremonies

\* (a session that is still good at the instant it expires)
getSessionToTheLastInstant(sessionId) ==
    IF sessionId \notin DOMAIN sessions \/ sessions[sessionId].expires_at < now
    THEN NULL
    ELSE sessionId

\* getSession, auth.ts:45-66: the row, or null
getSession(sessionId) ==
    IF sessionId \notin DOMAIN sessions \/ sessions[sessionId].expires_at <= now
    THEN NULL
    ELSE sessionId

\* getUserBySession, auth.ts:68-87: the id of the user, or null
getUserBySession(sessionId) ==
    IF getSession(sessionId) = NULL THEN NULL
    ELSE IF sessions[sessionId].user_id \notin 1..Len(users) THEN NULL
    ELSE sessions[sessionId].user_id

\* A call of getUserBySession
GetUserBySession(sessionId) ==
    /\ last' = Answer("getUserBySession", sessionId,
                      getUserBySession(sessionId), 0, "ok")
    /\ UNCHANGED <<now, sessions, sessionIds, passkeys, counters, net>>
    /\ UNCHANGED ceremonies

\* (a delete of every session)
WithoutAnySession(table, sessionId) == << >>

\* deleteSession, auth.ts:107-109
WithoutSession(table, sessionId) ==
    [x \in DOMAIN table \ {sessionId} |-> table[x]]

\* POST /api/auth/logout, index.ts:148-172
Logout(cookie) ==
    /\ sessions' = IF cookie = NULL THEN sessions
                   ELSE WithoutSession(sessions, cookie)
    /\ last' = Answer("logout", cookie, 0, 0, "ok")
    /\ UNCHANGED <<now, sessionIds, passkeys, counters, net>>
    /\ UNCHANGED ceremonies

\* requireAuth, middleware.ts:6-18: "ok", or the message of the error thrown.
\* It awaits nothing, and the routes go on with its result in the same turn.
requireAuth(cookie) ==
    IF cookie = NULL THEN ErrNotAuthenticated
    ELSE IF getUserBySession(cookie) = NULL THEN ErrInvalidSession
    ELSE "ok"

\* getCounterForUser: counter?.count ?? 0
getCounterForUser(userId) ==
    IF userId \in DOMAIN counters THEN counters[userId] ELSE 0

\* (an increment that starts a new row at 0)
incrementCounterFromNothing(userId) ==
    IF userId \in DOMAIN counters
    THEN [counters EXCEPT ![userId] = @ + 1]
    ELSE counters @@ (userId :> 0)

\* incrementCounter: the table afterwards (the count returned is that of
\* the user's row)
incrementCounter(userId) ==
    IF userId \in DOMAIN counters
    THEN [counters EXCEPT ![userId] = @ + 1]
    ELSE counters @@ (userId :> 1)

\* decrementCounter: the table afterwards
decrementCounter(userId) ==
    IF userId \in DOMAIN counters
    THEN [counters EXCEPT ![userId] = @ - 1]
    ELSE counters @@ (userId :> -1)

\* resetCounter: an update, which changes nothing where there is no row
resetCounter(userId) ==
    IF userId \in DOMAIN counters
    THEN [counters EXCEPT ![userId] = 0]
    ELSE counters

\* A counter route refuses the request: status 401, nothing written
Refuse(op, cookie) ==
    /\ last' = Answer(op, cookie, 0, 0, requireAuth(cookie))
    /\ UNCHANGED <<counters, net>>

\* GET /api/counter, index.ts:279-297
CounterGet(cookie) ==
    /\ IF requireAuth(cookie) # "ok" THEN Refuse("get", cookie)
       ELSE LET userId == getUserBySession(cookie) IN
            /\ last' = Answer("get", cookie, userId,
                              getCounterForUser(userId), "ok")
            /\ UNCHANGED <<counters, net>>
    /\ UNCHANGED <<now, sessions, sessionIds, passkeys>>
    /\ UNCHANGED ceremonies

\* POST /api/counter/increment, index.ts:299-317
CounterIncrement(cookie) ==
    /\ IF requireAuth(cookie) # "ok" THEN Refuse("increment", cookie)
       ELSE LET userId == getUserBySession(cookie) IN
            /\ getCounterForUser(userId) < MaxCount
            /\ counters' = incrementCounter(userId)
            /\ net' = [net EXCEPT ![userId] = @ + 1]
            /\ last' = Answer("increment", cookie, userId,
                              incrementCounter(userId)[userId], "ok")
    /\ UNCHANGED <<now, sessions, sessionIds, passkeys>>
    /\ UNCHANGED ceremonies

\* POST /api/counter/decrement, index.ts:319-337
CounterDecrement(cookie) ==
    /\ IF requireAuth(cookie) # "ok" THEN Refuse("decrement", cookie)
       ELSE LET userId == getUserBySession(cookie) IN
            /\ getCounterForUser(userId) > -MaxCount
            /\ counters' = decrementCounter(userId)
            /\ net' = [net EXCEPT ![userId] = @ - 1]
            /\ last' = Answer("decrement", cookie, userId,
                              decrementCounter(userId)[userId], "ok")
    /\ UNCHANGED <<now, sessions, sessionIds, passkeys>>
    /\ UNCHANGED ceremonies

\* POST /api/counter/reset, index.ts:339-357: answers {count: 0}
CounterReset(cookie) ==
    /\ IF requireAuth(cookie) # "ok" THEN Refuse("reset", cookie)
       ELSE LET userId == getUserBySession(cookie) IN
            /\ counters' = resetCounter(userId)
            /\ net' = [net EXCEPT ![userId] = 0]
            /\ last' = Answer("reset", cookie, userId, 0, "ok")
    /\ UNCHANGED <<now, sessions, sessionIds, passkeys>>
    /\ UNCHANGED ceremonies

AppNext ==
    \/ \E t \in Instants : Elapse(t)
    \/ \E u \in 1..Len(users) : CreateSession(u)
    \/ \E x \in 1..MaxSessions : GetUserBySession(x)
    \/ \E cookie \in Cookies : Logout(cookie)
    \/ \E cookie \in Cookies : CounterGet(cookie)
    \/ \E cookie \in Cookies : CounterIncrement(cookie)
    \/ \E cookie \in Cookies : CounterDecrement(cookie)
    \/ \E cookie \in Cookies : CounterReset(cookie)

AppSpec == AppInit /\ [][AppNext]_vars

\* =================================================================
\* Managing passkeys
\* =================================================================
PasskeyNames == {"laptop", "phone"}

\* The answer of deletePasskey or updatePasskeyName: result.changes > 0
Changed(op, passkeyId, userId) ==
    [Idle EXCEPT !.pc = "done", !.op = op, !.userId = userId,
                 !.passkey = [NoPasskey EXCEPT !.id = passkeyId],
                 !.outcome = IF passkeyId \in DOMAIN passkeys
                             THEN "true" ELSE "false"]

\* deletePasskey(passkeyId, userId), passkey.ts:317-321: the delete is by
\* the id of the passkey; userId is not used
DeletePasskey(passkeyId, userId) ==
    /\ passkeys' = [p \in DOMAIN passkeys \ {passkeyId} |-> passkeys[p]]
    /\ last' = Changed("deletePasskey", passkeyId, userId)
    /\ UNCHANGED <<now, sessions, sessionIds, counters, net>>
    /\ UNCHANGED ceremonies

\* updatePasskeyName(passkeyId, userId, name), passkey.ts:326-338: the
\* update is by the id of the passkey; userId is not used
UpdatePasskeyName(passkeyId, userId, name) ==
    /\ passkeys' = [p \in DOMAIN passkeys |->
                       IF p = passkeyId THEN [passkeys[p] EXCEPT !.name = name]
                       ELSE passkeys[p]]
    /\ last' = Changed("updatePasskeyName", passkeyId, userId)
    /\ UNCHANGED <<now, sessions, sessionIds, counters, net>>
    /\ UNCHANGED ceremonies

ManageNext ==
    \/ \E p \in 1..(passkeyIds + 1), u \in 1..Len(users) : DeletePasskey(p, u)
    \/ \E p \in 1..(passkeyIds + 1), u \in 1..Len(users), name \in PasskeyNames :
          UpdatePasskeyName(p, u, name)

ManageSpec == AppInit /\ [][ManageNext]_vars

\* =================================================================
\* Properties
\* =================================================================
Ceremonies == {"register", "authenticate"}

KindOf(op) == IF op = "register" THEN "registration" ELSE "authentication"

\* The step taken calls verifyAndCreatePasskey (op "register") or
\* verifyAndAuthenticatePasskey (op "authenticate") with challenge c: a
\* request arrives and its handler gets there in the same step, or the
\* register route gets there after createUser.  The call then waits for the
\* library, or has thrown and the request is answered (last').
Calls(op, c) ==
    /\ \/ ops' = ops + 1
       \/ \E r \in Requests : req[r].pc = "userCreated" /\ req'[r].pc # "userCreated"
    /\ \/ \E r \in Requests :
             /\ req'[r] # req[r]
             /\ req'[r].pc \in {"verifyRegistration", "verifyAuthentication"}
             /\ req'[r].op = op
             /\ req'[r].challenge = c
       \/ /\ last'.op = op
          /\ last'.challenge = c
          /\ last'.outcome # ErrUsernameTaken

\* The step taken is the one in which the library answers request r's
\* authentication and verifyAndAuthenticatePasskey goes on from its await.
LibraryAnswers(r) ==
    /\ req[r].pc = "verifyAuthentication"
    /\ req'[r].pc # "verifyAuthentication"

\* The response the library read in that step
ResponseRead(r) ==
    IF req'[r].pc = "authenticated" THEN req'[r].resp ELSE last'.resp

\* C1: for every challenge issued, at most one completion presenting it
\* returns successfully, also when two such completions are in flight
\* together.
C1_AtMostOneRedemption ==
    \A c \in Issued : ledger[c].ok <= 1

\* C2: once verifyAndCreatePasskey has found the challenge present and
\* unexpired, the challenge is consumed whatever the outcome: after a
\* subject mismatch or a failed verification it is not in the store.
C2_ConsumedOnFailure ==
    (/\ last.op = "register"
     /\ last.outcome \in {ErrUserMismatch, ErrRegistrationFailed})
    => last.challenge \notin DOMAIN registrationChallenges

\* The two halves of C3: the store, and the step of a later call.
C3_Consumed ==
    \A c \in Succeeded :
       /\ c \notin DOMAIN registrationChallenges
       /\ c \notin DOMAIN authenticationChallenges

C3_ReplayRejected ==
    \A c \in Succeeded \cup NeverIssued, op \in Ceremonies :
       Calls(op, c) =>
          /\ last'.outcome = ErrInvalidChallenge
          /\ UNCHANGED <<passkeys, sessions>>

\* C3: a challenge that a completion succeeded with is in neither store,
\* and every later completion presenting it fails with the challenge-invalid
\* error, creating no credential, changing no counter, creating no session,
\* which is what a completion presenting a value never issued does.
C3_NoReplayAfterSuccess == []C3_Consumed /\ [][C3_ReplayRejected]_vars

C3_Witness ==
    /\ last.outcome = ErrInvalidChallenge
    /\ last.challenge \in Succeeded

\* C4: an authentication with a valid, unexpired challenge and a credential
\* id that matches no stored credential fails with credential-not-found and
\* the challenge is consumed.
C4_ConsumedWhenCredentialUnknown ==
    (/\ last.op = "authenticate"
     /\ last.outcome = ErrPasskeyNotFound)
    => last.challenge \notin DOMAIN authenticationChallenges

\* A step that calls a completion after the challenge's time is up
C5_LateAttempt ==
    \A c \in Issued, op \in Ceremonies :
       (ledger[c].issued_at + CHALLENGE_TTL < now /\ Calls(op, c)) =>
          /\ last'.outcome \in ChallengeErrors
          /\ UNCHANGED <<passkeys, sessions>>

\* C5: a completion attempted strictly later than the issue time of its
\* challenge plus the TTL fails with a challenge error, swept or not, and
\* creates no credential and updates no counter.
C5_ExpiredChallengeRejected == [][C5_LateAttempt]_vars

C5_Witness ==
    /\ last.outcome = ErrChallengeExpired
    /\ ledger[last.challenge].issued_at + CHALLENGE_TTL < now

\* A step that calls a completion with a challenge of the other kind
C6_WrongKind ==
    \A c \in Issued, op \in Ceremonies :
       (ledger[c].kind # KindOf(op) /\ Calls(op, c)) =>
          /\ last'.outcome = ErrInvalidChallenge
          /\ UNCHANGED <<registrationChallenges, authenticationChallenges,
                         passkeys, sessions>>

\* C6: a completion presenting a challenge issued for the other ceremony
\* fails with the challenge-invalid error and leaves both stores as they are.
C6_SeparateNamespaces == [][C6_WrongKind]_vars

C6_Witness ==
    /\ last.op = "register"
    /\ last.outcome = ErrInvalidChallenge
    /\ last.challenge \in DOMAIN authenticationChallenges

\* A step in which the library answers on a counter not above the one read
C7_NotAbove ==
    \A r \in Requests :
       (/\ LibraryAnswers(r)
        /\ req[r].passkey.counter > 0
        /\ ResponseRead(r).counter <= req[r].passkey.counter) =>
          /\ req'[r].pc = "idle"
          /\ last'.outcome \notin {"", "ok"}
          /\ UNCHANGED passkeys

\* C7: when the passkey row read by the call has counter C > 0 and the
\* response reports a counter not above C, the authentication fails and the
\* passkey table is left as it is.
C7_CloneDetection == [][C7_NotAbove]_vars

C7_Witness ==
    /\ last.op = "authenticate"
    /\ last.outcome = ErrLibrary
    /\ last.resp.proof = "valid"
    /\ \E p \in DOMAIN passkeys :
          /\ passkeys[p].credential_id = last.resp.id
          /\ passkeys[p].counter > 0
          /\ last.resp.counter = passkeys[p].counter

\* A step in which a response is accepted, against the row as committed
C8_AboveCommitted ==
    \A r \in Requests :
       (/\ LibraryAnswers(r)
        /\ req'[r].pc = "authenticated"
        /\ req[r].passkey.id \in DOMAIN passkeys
        /\ passkeys[req[r].passkey.id].counter > 0) =>
          req'[r].resp.counter > passkeys[req[r].passkey.id].counter

\* C8: a response is accepted only if the counter it reports is above the
\* counter committed for the credential at the moment of acceptance, when
\* that counter is not 0.
C8_AcceptedAboveLatestCommitted == [][C8_AboveCommitted]_vars

\* A step in which the library answers on a counter above the one read
C9_Above ==
    \A r \in Requests :
       (/\ LibraryAnswers(r)
        /\ ResponseRead(r).proof = "valid"
        /\ ResponseRead(r).counter > req[r].passkey.counter) =>
          LET p == req[r].passkey.id IN
          /\ req'[r].pc = "authenticated"
          /\ DOMAIN passkeys' = DOMAIN passkeys
          /\ p \in DOMAIN passkeys =>
                /\ passkeys'[p].counter = ResponseRead(r).counter
                /\ passkeys'[p].last_used_at = now
                /\ passkeys'[p].last_used_at # NULL
          /\ \A q \in DOMAIN passkeys \ {p} : passkeys'[q] = passkeys[q]

\* C9: when the passkey row read by the call has counter C and the valid
\* response reports C + k, k > 0, the authentication succeeds, the row's
\* counter becomes C + k and its last_used_at is set; no other row changes.
C9_CounterAdvances == [][C9_Above]_vars

C9_Witness ==
    \E r \in Requests :
       /\ req[r].pc = "authenticated"
       /\ req[r].resp.counter > req[r].passkey.counter
       /\ passkeys[req[r].passkey.id].counter = req[r].resp.counter
       /\ passkeys[req[r].passkey.id].last_used_at = now
       /\ \E q \in DOMAIN passkeys : q # req[r].passkey.id

\* A step in which the library answers on counters that are both 0
C10_BothZero ==
    \A r \in Requests :
       (/\ LibraryAnswers(r)
        /\ ResponseRead(r).proof = "valid"
        /\ ResponseRead(r).counter = 0
        /\ req[r].passkey.counter = 0) =>
          /\ req'[r].pc = "authenticated"
          /\ req[r].passkey.id \in DOMAIN passkeys =>
                passkeys'[req[r].passkey.id].counter = 0

\* C10: when the passkey row read by the call has counter 0 and the valid
\* response reports 0, the authentication is accepted and the row's counter
\* is 0 afterwards, however many authentications came before.
C10_ZeroCounterAccepted == [][C10_BothZero]_vars

C10_Witness ==
    \E r \in Requests :
       /\ req[r].pc = "authenticated"
       /\ \A q \in Requests \ {r} : req[q].pc = "idle"
       /\ req[r].resp.counter = 0
       /\ passkeys[req[r].passkey.id].counter = 0
       /\ \E c \in Succeeded :
             /\ c # req[r].challenge
             /\ ledger[c].kind = "authentication"

\* The step taken calls verifyAndCreatePasskey(u, ..., c): Calls, with the
\* target user of the call
CallsToCreate(u, c) ==
    /\ Calls("register", c)
    /\ \/ \E r \in Requests :
             /\ req'[r] # req[r]
             /\ req'[r].pc = "verifyRegistration"
             /\ req'[r].userId = u
       \/ /\ last'.pc = "done"
          /\ last'.userId = u

\* A step that calls verifyAndCreatePasskey for a user other than the one
\* its unexpired challenge was issued for
C11_Mismatch ==
    \A c \in DOMAIN registrationChallenges, u \in 1..Len(users) :
       (/\ CallsToCreate(u, c)
        /\ ~Expired(registrationChallenges[c])
        /\ registrationChallenges[c].user_id # TEMP_USER_ID
        /\ registrationChallenges[c].user_id # u) =>
          /\ last'.outcome = ErrUserMismatch
          /\ UNCHANGED <<passkeys, passkeyIds>>

\* C11: when the registration challenge recorded a subject other than the
\* placeholder 0 and verifyAndCreatePasskey is called for another user, the
\* call fails with "User ID mismatch" and the passkey table is as it was.
C11_SubjectMismatch == [][C11_Mismatch]_vars

C11_Witness ==
    /\ last.op = "register"
    /\ last.outcome = ErrUserMismatch
    /\ last.challenge \in DOMAIN registrationChallenges
    /\ registrationChallenges[last.challenge].user_id \notin
          {TEMP_USER_ID, last.userId}

\* The step taken is the one in which the library answers request r's
\* registration and verifyAndCreatePasskey goes on from its await.
RegistrationAnswers(r) ==
    /\ req[r].pc = "verifyRegistration"
    /\ req'[r].pc # "verifyRegistration"

\* The attestation the library read in that step
AttestationRead(r) ==
    IF req'[r].pc = "registered" THEN req'[r].resp ELSE last'.resp

\* A step in which verifyAndCreatePasskey returns adds one row, that of the
\* attestation for the user of the call, to the rows there were
C12_OneRowOnSuccess ==
    \A r \in Requests :
       (/\ RegistrationAnswers(r)
        /\ (req'[r].pc = "registered" \/ last'.outcome = "ok")) =>
          \E p \in DOMAIN passkeys' \ DOMAIN passkeys :
             /\ DOMAIN passkeys' = DOMAIN passkeys \cup {p}
             /\ passkeys'[p].user_id = req[r].userId
             /\ passkeys'[p].credential_id = AttestationRead(r).id
             /\ passkeys'[p].counter = AttestationRead(r).counter
             /\ \A q \in DOMAIN passkeys : passkeys'[q] = passkeys[q]

\* A step in which verifyAndCreatePasskey throws leaves the table alone
C12_NoRowOnFailure ==
    (/\ last'.pc = "done"
     /\ last'.op = "register"
     /\ last'.outcome \in {ErrInvalidChallenge, ErrChallengeExpired,
                           ErrUserMismatch, ErrRegistrationFailed}) =>
       UNCHANGED <<passkeys, passkeyIds>>

\* C12: a successful verifyAndCreatePasskey adds exactly one passkey row,
\* bound to the user it was called for and carrying the credential id and
\* the initial counter of the verified attestation; a failed one (invalid or
\* expired challenge, subject mismatch, failed verification) adds no row and
\* changes none.
C12_RegistrationFrame == [][C12_OneRowOnSuccess /\ C12_NoRowOnFailure]_vars

C12_Witness ==
    \E r \in Requests :
       /\ req[r].pc = "registered"
       /\ \E p \in DOMAIN passkeys \ DOMAIN InitialPasskeys :
             /\ passkeys[p].user_id = req[r].userId
             /\ passkeys[p].credential_id = req[r].resp.id
             /\ passkeys[p].counter = req[r].resp.counter
             /\ passkeys[p].counter > 0

\* No two rows of the passkey table have one credential id
C13_Unique ==
    \A p, q \in DOMAIN passkeys :
       passkeys[p].credential_id = passkeys[q].credential_id => p = q

\* A step in which a registration is verified for a credential id that some
\* row has
C13_Duplicate ==
    \A r \in Requests :
       (/\ RegistrationAnswers(r)
        /\ AttestationRead(r).proof = "valid"
        /\ PasskeyByCredentialId(AttestationRead(r).id) # {}) =>
          /\ last'.outcome = ErrUnique
          /\ UNCHANGED <<passkeys, passkeyIds>>

\* C13: in every reachable state no two passkey rows share a credential_id,
\* so each credential id has one owning user; a registration whose verified
\* credential id is already stored fails and leaves the stored row as it is.
C13_CredentialIdUnique == []C13_Unique /\ [][C13_Duplicate]_vars

C13_Witness ==
    /\ last.op = "register"
    /\ last.outcome = ErrUnique
    /\ last.resp.proof = "valid"
    /\ Cardinality(PasskeyByCredentialId(last.resp.id)) = 1

\* A step that calls verifyAndAuthenticatePasskey with an unexpired
\* authentication challenge and the credential id of a stored row: the call
\* reads that row and waits for the library
C14_Begin ==
    \A c \in DOMAIN authenticationChallenges, p \in DOMAIN passkeys :
       (/\ Calls("authenticate", c)
        /\ ~Expired(authenticationChallenges[c])
        /\ \/ last'.credId = passkeys[p].credential_id
           \/ \E r \in Requests : /\ req'[r] # req[r]
                                   /\ req'[r].credId = passkeys[p].credential_id) =>
          \E r \in Requests :
             /\ req'[r].pc = "verifyAuthentication"
             /\ req'[r].passkey.id = p
             /\ req'[r].passkey.user_id = passkeys[p].user_id

\* A step in which the library answers on a valid assertion whose counter it
\* lets pass: the call returns the user of the row
C14_Verified ==
    \A r \in Requests :
       (/\ LibraryAnswers(r)
        /\ ResponseRead(r).proof = "valid"
        /\ \/ ResponseRead(r).counter > req[r].passkey.counter
           \/ ResponseRead(r).counter = 0 /\ req[r].passkey.counter = 0) =>
          /\ req'[r].pc = "authenticated"
          /\ req'[r].userId = passkeys[req[r].passkey.id].user_id

\* The step in which the route answers after the call returned: the sessions
\* it creates are sessions of that user, who is told so
C14_Respond ==
    \A r \in Requests :
       (req[r].pc = "authenticated" /\ req'[r].pc # "authenticated") =>
          /\ last'.outcome = "ok"
          /\ last'.userId = req[r].userId
          /\ DOMAIN sessions' # DOMAIN sessions
          /\ \A x \in DOMAIN sessions' \ DOMAIN sessions :
                sessions'[x].user_id = req[r].userId

\* A row stays the row of its user and of its credential
C14_Bound ==
    \A p \in DOMAIN passkeys :
       /\ p \in DOMAIN passkeys'
       /\ passkeys'[p].user_id = passkeys[p].user_id
       /\ passkeys'[p].credential_id = passkeys[p].credential_id

\* C14: after a registration bound a credential to user u, an authentication
\* with a fresh authentication challenge and a valid assertion by that
\* credential succeeds and returns userId = u, and the session then created
\* is a session of u.
C14_RegisterThenAuthenticate ==
    [][C14_Begin /\ C14_Verified /\ C14_Respond /\ C14_Bound]_vars

C14_Witness ==
    /\ last.op = "authenticate"
    /\ last.outcome = "ok"
    /\ \E p \in DOMAIN passkeys \ DOMAIN InitialPasskeys :
          /\ passkeys[p].credential_id = last.resp.id
          /\ passkeys[p].user_id = last.userId
          /\ \E x \in DOMAIN sessions : sessions[x].user_id = passkeys[p].user_id

\* The credential ids stored for the identity of a name
CredentialsOf(username) ==
    {passkeys[p].credential_id :
        p \in {q \in DOMAIN passkeys :
                  /\ passkeys[q].user_id \in 1..Len(users)
                  /\ users[passkeys[q].user_id] = username}}

\* C15: registration options issued for an identity carry in their
\* exclude-list the credential id of every credential stored for it: none
\* when it has none, each of them when it has some.
C15_ExcludeListOfIdentity ==
    (last.pc = "options" /\ last.op = "register") =>
       last.exclude = CredentialsOf(last.username)

\* Where a request stands between the mutation made for it and its answer,
\* its challenge is in neither store
C16_Committed ==
    \A r \in Requests :
       req[r].pc \in {"registered", "authenticated"} =>
          /\ req[r].challenge \notin DOMAIN registrationChallenges
          /\ req[r].challenge \notin DOMAIN authenticationChallenges

\* A step of a request that writes the passkey table leaves the request's
\* challenge in neither store, and so does one whose insert was refused:
\* the challenge goes first
C16_RemovedWithMutation ==
    \A r \in Requests :
       (/\ RegistrationAnswers(r) \/ LibraryAnswers(r)
        /\ passkeys' # passkeys \/ last'.outcome = ErrUnique) =>
          /\ req[r].challenge \notin DOMAIN registrationChallenges'
          /\ req[r].challenge \notin DOMAIN authenticationChallenges'

\* C16: at no await boundary is a challenge still in its store while the
\* mutation made on its behalf (new passkey row, updated counter) is
\* committed: the challenge is removed before the mutation and in the same
\* uninterrupted step.
C16_FailSafeOrdering == []C16_Committed /\ [][C16_RemovedWithMutation]_vars

C16_Witness ==
    \E r \in Requests :
       /\ req[r].pc = "authenticated"
       /\ ledger[req[r].challenge].kind = "authentication"
       /\ req[r].challenge \notin DOMAIN authenticationChallenges
       /\ req[r].resp.counter > req[r].passkey.counter
       /\ passkeys[req[r].passkey.id].counter = req[r].resp.counter

\* C17: the answer a client gets for a failed authenticate/verify request
\* does not depend on the step that failed: whatever the reason, status and
\* body are those of the answer to an invalid challenge.
C17_FailuresIndistinguishable ==
    (/\ last.pc = "done"
     /\ last.route
     /\ last.op = "authenticate"
     /\ last.outcome # "ok") =>
       ClientResponse(last.outcome) = ClientResponse(ErrInvalidChallenge)

\* C18: a completion request that presents an expired, a missing or a
\* wrong-kind challenge is answered with a 4xx status, never a 5xx.
C18_ChallengeErrorIsClientError ==
    (/\ last.pc = "done"
     /\ last.route
     /\ last.outcome \in ChallengeErrors) =>
       Status(last.outcome) \in 400..499

\* Challenges that expire before the end of the time modelled
ExpiresInTime(c) ==
    c \in Issued /\ ledger[c].issued_at + CHALLENGE_TTL < MaxTime

Stored(c) ==
    c \in DOMAIN registrationChallenges \/ c \in DOMAIN authenticationChallenges

\* C19: with the sweep timer firing and time advancing, every challenge
\* issued is eventually out of its store, redeemed or not: the sweep deletes
\* it once its expires_at has passed.
C19_EventuallySwept ==
    \A c \in 1..MaxChallenges : (ExpiresInTime(c) /\ Stored(c)) ~> ~Stored(c)

\* an abandoned challenge (no completion was ever attempted) is gone
C19_Witness ==
    /\ ops = 0
    /\ \E c \in Issued : ~Stored(c)

\* No step lowers the counter of a row
C20_NotLowered ==
    \A p \in DOMAIN passkeys :
       p \in DOMAIN passkeys' => passkeys'[p].counter >= passkeys[p].counter

\* C20: the stored signature counter of a credential never decreases: every
\* committed update writes a value at least the value stored just before it,
\* also when authentications of one credential interleave.
C20_CounterNeverDecreases == [][C20_NotLowered]_vars

\* C21: when a POST /api/auth/register request has been answered, either
\* the user row, its passkey row and a session were all created, or none
\* was: after a failure no user row made by the request remains.
C21_RegistrationAtomic ==
    (/\ last.pc = "done"
     /\ last.route
     /\ last.op = "register") =>
       IF last.outcome = "ok"
       THEN /\ last.userId \in 1..Len(users)
            /\ users[last.userId] = last.username
            /\ getPasskeysForUser(last.userId) # {}
            /\ \E x \in DOMAIN sessions : sessions[x].user_id = last.userId
       ELSE last.userId \notin 1..Len(users)

\* The store a challenge was put in when it was issued
StoreOf(c) ==
    IF ledger[c].kind = "registration" THEN registrationChallenges
    ELSE authenticationChallenges

\* A step of the sweep: no request moves, none starts, no challenge is
\* issued and the clock stands.  After it the stores hold the entries they
\* held whose expires_at is not earlier than now, as they were.
C22_SweepExact ==
    (/\ UNCHANGED <<req, ops, ledger, now>>
     /\ <<registrationChallenges, authenticationChallenges>>' #
           <<registrationChallenges, authenticationChallenges>>) =>
       \A c \in Issued :
          /\ Stored(c)' <=> (Stored(c) /\ StoreOf(c)[c].expires_at >= now)
          /\ Stored(c)' => StoreOf(c)'[c] = StoreOf(c)[c]

\* A challenge that leaves its store before its expiry was taken out by the
\* call it let through, where that call went on from its await
C22_NotBeforeExpiry ==
    \A c \in Issued :
       (/\ Stored(c)
        /\ ~Stored(c)'
        /\ StoreOf(c)[c].expires_at >= now) =>
          \E r \in Requests :
             /\ req[r].challenge = c
             /\ RegistrationAnswers(r) \/ LibraryAnswers(r)

\* The lookup of a call and its delete of an expired entry are one step
C22_LookupAndDelete ==
    (last'.pc = "done" /\ last'.outcome = ErrChallengeExpired) =>
       \E c \in Issued :
          /\ c = last'.challenge
          /\ Stored(c)
          /\ ~Stored(c)'

\* C22: the sweep removes exactly the entries whose expires_at is earlier
\* than now and leaves every other entry as it is; no challenge leaves its
\* store before its expiry but by the completion it served, and a
\* completion's lookup and delete are one uninterrupted step.
C22_SweepSafe ==
    [][C22_SweepExact /\ C22_NotBeforeExpiry /\ C22_LookupAndDelete]_vars

C22_Witness ==
    /\ ops = 0
    /\ \E c, d \in Issued :
          /\ ~Stored(c)
          /\ Stored(d)
          /\ StoreOf(d)[d].expires_at = now

\* A step in which a POST /api/auth/register request gets its passkey row
C23_BoundToAskedName ==
    \A r \in Requests :
       (/\ RegistrationAnswers(r)
        /\ req[r].route
        /\ req'[r].pc = "registered") =>
          ledger[req[r].challenge].username = req[r].username

\* C23: a registration challenge that GET /api/auth/passkey/register/options
\* issued for username U completes POST /api/auth/register for U only:
\* presented with another username it binds no credential to that identity.
C23_ChallengeBoundToUsername == [][C23_BoundToAskedName]_vars

\* The errors verifyAndAuthenticatePasskey throws
AuthenticationErrors ==
    {ErrInvalidChallenge, ErrChallengeExpired, ErrPasskeyNotFound,
     ErrAuthenticationFailed, ErrLibrary}

\* A step in which a call of verifyAndAuthenticatePasskey throws
C24_FailureWritesNothing ==
    (/\ last'.pc = "done"
     /\ last'.op = "authenticate"
     /\ last'.outcome \in AuthenticationErrors) =>
       UNCHANGED <<passkeys, passkeyIds, sessions, sessionIds>>

\* C24: a failing call of verifyAndAuthenticatePasskey (missing or expired
\* challenge, unknown credential, failed verification) leaves the passkey
\* table as it is, counters and last_used_at included, and its caller
\* creates no session.
C24_FailedAuthenticationFrame == [][C24_FailureWritesNothing]_vars

\* a forged assertion that reports a counter above the stored one
C24_Witness ==
    /\ last.pc = "done"
    /\ last.op = "authenticate"
    /\ last.outcome = ErrAuthenticationFailed
    /\ last.resp.proof = "forged"
    /\ \E p \in DOMAIN passkeys :
          /\ passkeys[p].credential_id = last.resp.id
          /\ passkeys[p].counter < last.resp.counter

\* A session is created to expire SESSION_DURATION after the instant it is
\* created at
C25_Created ==
    \A x \in DOMAIN sessions' \ DOMAIN sessions :
       sessions'[x].expires_at = now + SESSION_DURATION

\* A step in which getUserBySession is asked for a stored session of a
\* stored user: the user before expires_at, null from expires_at on
C25_Lookup ==
    \A x \in DOMAIN sessions :
       (/\ last'.pc = "done"
        /\ last'.op = "getUserBySession"
        /\ last'.session = x) =>
          last'.userId = IF now < sessions[x].expires_at
                         THEN sessions[x].user_id
                         ELSE NULL

\* Time does not go back and a session row stays as it was created
C25_Onward ==
    /\ now' >= now
    /\ \A x \in DOMAIN sessions \cap DOMAIN sessions' : sessions'[x] = sessions[x]

\* C25: a session created at time t is valid exactly until t + 7 days:
\* getUserBySession (through getSession) returns its user at every time
\* before expires_at and null at every time from expires_at on, so a
\* session seen expired is never valid again.
C25_SessionLifetime == [][C25_Created /\ C25_Lookup /\ C25_Onward]_vars

\* asked at the very instant of expiry
C25_Witness ==
    /\ last.op = "getUserBySession"
    /\ last.userId = NULL
    /\ last.session \in DOMAIN sessions
    /\ sessions[last.session].expires_at = now
    /\ now = SESSION_DURATION + 1

\* The sessions that were created and are stored no more: logged out
LoggedOut == (1..sessionIds) \ DOMAIN sessions

CounterOps == {"get", "increment", "decrement", "reset"}

\* A session logged out stays out, getUserBySession answers null for it
\* and the counter routes refuse a request that carries it
C26_Refused ==
    \A x \in LoggedOut :
       /\ x \notin DOMAIN sessions'
       /\ (last'.pc = "done" /\ last'.session = x) =>
             /\ last'.op = "getUserBySession" => last'.userId = NULL
             /\ last'.op \in CounterOps =>
                   /\ last'.outcome = ErrInvalidSession
                   /\ UNCHANGED <<counters, net>>

\* A logout removes the session of its cookie and leaves the others
C26_OthersKept ==
    (last'.pc = "done" /\ last'.op = "logout") =>
       /\ \A x \in DOMAIN sessions : x = last'.session => x \notin DOMAIN sessions'
       /\ \A y \in DOMAIN sessions :
             y # last'.session =>
                (y \in DOMAIN sessions' /\ sessions'[y] = sessions[y])

\* C26: after the logout of session s, s never authenticates again: every
\* later getUserBySession(s) returns null and requireAuth throws for a
\* request carrying s, so the counter routes refuse it; the other sessions
\* are as they were.
C26_LogoutIsFinal == [][C26_Refused /\ C26_OthersKept]_vars

C26_Witness ==
    /\ last.op \in CounterOps
    /\ last.outcome = ErrInvalidSession
    /\ last.session \in LoggedOut
    /\ \E y \in DOMAIN sessions : getUserBySession(y) # NULL

\* The step in which the authenticate/verify route answers 200: the one
\* session it made is the one of its cookie
C27_OneSession ==
    \A r \in Requests :
       (/\ req[r].pc = "authenticated"
        /\ req'[r].pc # "authenticated"
        /\ last'.outcome = "ok") =>
          Cardinality(DOMAIN sessions' \ DOMAIN sessions) = 1

\* C27: a successful POST /api/auth/passkey/authenticate/verify creates
\* exactly one session row for the authenticated user, the one whose id the
\* Set-Cookie header carries; no session row is left that no client got.
C27_OneSessionPerLogin == [][C27_OneSession]_vars

\* C28: deletePasskey(passkeyId, userId) and updatePasskeyName(passkeyId,
\* userId, name) touch a passkey only when userId owns it: called with the
\* id of a passkey of another user they return false and leave the row as
\* it is.
C28_OwnerOnly ==
    [][\A p \in DOMAIN passkeys :
          (/\ last'.pc = "done"
           /\ last'.op \in {"deletePasskey", "updatePasskeyName"}
           /\ last'.passkey.id = p
           /\ passkeys[p].user_id # last'.userId) =>
             /\ last'.outcome = "false"
             /\ p \in DOMAIN passkeys'
             /\ passkeys'[p] = passkeys[p]]_vars

\* No two user rows have one username
C29_UniqueNames ==
    \A u, v \in 1..Len(users) : users[u] = users[v] => u = v

\* A step in which POST /api/auth/register arrives for a stored username:
\* it is refused there, and nothing is written
C29_Refused ==
    /\ (/\ ops' = ops + 1
        /\ last'.pc = "done"
        /\ last'.route
        /\ last'.op = "register"
        /\ \E u \in 1..Len(users) : users[u] = last'.username) =>
          /\ last'.outcome = ErrUsernameTaken
          /\ UNCHANGED <<users, passkeys, passkeyIds, sessions, sessionIds,
                         registrationChallenges, authenticationChallenges>>
    /\ \A r \in Requests :
          (req[r].pc = "idle" /\ req'[r].pc = "createUser") =>
             \A u \in 1..Len(users) : users[u] # req'[r].username

\* The rows of the users there are stay as they are
C29_ExistingKept ==
    /\ Len(users') >= Len(users)
    /\ \A u \in 1..Len(users) : users'[u] = users[u]

\* C29: usernames are unique and a registration attempt leaves an existing
\* account alone: a POST /api/auth/register for a stored username is
\* refused without a user, passkey or session being created and without the
\* challenge being consumed, and of register requests in flight together
\* for one new username at most one leaves a user row.
C29_UsernamesUnique ==
    []C29_UniqueNames /\ [][C29_Refused /\ C29_ExistingKept]_vars

\* the insert of the second of two requests for one new name is refused
C29_Witness ==
    /\ last.pc = "done"
    /\ last.op = "register"
    /\ last.outcome = ErrUnique
    /\ last.resp = NoResponse
    /\ Cardinality({u \in 1..Len(users) : users[u] = last.username}) = 1

\* What getCounterForUser answers is the increments less the decrements
\* since the last reset
C30_Net ==
    \A u \in DOMAIN net : getCounterForUser(u) = net[u]

\* A step of a counter route that requireAuth let through, for user u: the
\* counter of u moves by the operation, the count answered is the count
\* stored, and the counter of every other user is as it was
C30_Step ==
    \A u \in DOMAIN net :
       (/\ last'.pc = "done"
        /\ last'.op \in CounterOps
        /\ last'.outcome = "ok"
        /\ last'.userId = u) =>
          /\ last'.op = "get" => getCounterForUser(u)' = getCounterForUser(u)
          /\ last'.op = "increment" =>
                getCounterForUser(u)' = getCounterForUser(u) + 1
          /\ last'.op = "decrement" =>
                getCounterForUser(u)' = getCounterForUser(u) - 1
          /\ last'.op = "reset" => getCounterForUser(u)' = 0
          /\ last'.count = getCounterForUser(u)'
          /\ \A v \in DOMAIN net \ {u} :
                getCounterForUser(v)' = getCounterForUser(v)

\* C30: the click counter is per user and its operations compose as integer
\* arithmetic: getCounterForUser(u) is the number of increments less the
\* number of decrements for u since u's last reset (0 where u has no row,
\* also after a reset), a decrement after an increment restores the value,
\* and no operation for u changes the counter of another user.
C30_CounterArithmetic == []C30_Net /\ [][C30_Step]_vars

\* back at 0 by a decrement, with a row, while the other user's count is not 0
C30_Witness ==
    /\ last.pc = "done"
    /\ last.op = "decrement"
    /\ last.outcome = "ok"
    /\ last.count = 0
    /\ last.userId \in DOMAIN counters
    /\ \E v \in DOMAIN net : v # last.userId /\ getCounterForUser(v) < 0
====
